---- MODULE Spec2Model ----
(***************************************************************************)
(* A model of the iso9660 crate: the fixed-string codec, the 17-byte       *)
(* decimal date codec, the El Torito boot-catalog entries, the boot        *)
(* record, the primary volume descriptor and the descriptor walk of the    *)
(* cdrr tool.  Buffers are functions from 0-based offsets to bytes, slices *)
(* are 1-based sequences of bytes, and every parse or dump yields a        *)
(* record whose kind is "Ok", "Err" or "Panic" (a Rust panic: a failed     *)
(* assertion, a slice-length mismatch, an index out of bounds, an unwrap   *)
(* of an error).                                                           *)
(***************************************************************************)
EXTENDS Integers, Sequences, FiniteSets, TLC

VARIABLES
    sSlice, sSet, sRes,                      \* fixed-string parse: input slice, charset, result
    dBuf, dRes, rRes,                        \* date parse: input buffer, DecDateTime / DirectoryRecordDate result
    eKind, eX, eOut, eDump, eParsed,         \* catalog entry: type, value, 32-byte slot, dump / parse outcome
    bX, bAddr, bOut, bDump, bParsed, bOff,   \* boot record: value, catalog address, sector, outcomes
    stream, tail, target,                    \* descriptor walk of cdrr: the file's sectors from DATA_START on,
                                             \* its trailing bytes short of a sector, the build's target_endian
    wPc, pos, off, sector, header,           \* position in main, file position, main's locals
    reads, nPVD, nBoot, trace,               \* history: offsets of the read_sector calls, descriptors parsed, lines printed
    dDef, rDef,                              \* default dates: DecDateTime::default(), DirectoryRecordDate::default()
    hBuf, hRes,                              \* header parse: 7 header bytes, result of VD::read_header
    deSlice, deTarget, deRes,                \* double_endian: window, target_endian of the build, the four decodes
    pSector, pTarget, pRes                   \* PVD parse: 2048-byte sector, target_endian of the build, result

strVars  == <<sSlice, sSet, sRes>>
dateVars == <<dBuf, dRes, rRes, dDef, rDef>>
entVars  == <<eKind, eX, eOut, eDump, eParsed>>
bootVars == <<bX, bAddr, bOut, bDump, bParsed, bOff>>
walkVars == <<stream, tail, target, wPc, pos, off, sector, header, reads, nPVD, nBoot, trace>>
hdrVars  == <<hBuf, hRes>>
endVars  == <<deSlice, deTarget, deRes>>
pvdVars  == <<pSector, pTarget, pRes>>
codecVars == <<hdrVars, endVars, pvdVars>>
vars     == <<strVars, dateVars, entVars, bootVars, walkVars, codecVars>>

(***************************************************************************)
(* Bounds of the model.                                                    *)
(***************************************************************************)
\* longest fixed-string buffer of sample bytes parsed on its own
MaxStrLen == 3
\* longest logical content of an identifier string held by a catalog entry
MaxContent == 2
\* longest descriptor stream walked, in sectors
MaxSectors == 3

(***************************************************************************)
(* Outcomes and byte arithmetic.                                           *)
(***************************************************************************)
NotRun == [kind |-> "NotRun"]
Panic  == [kind |-> "Panic"]
None   == [some |-> FALSE]
Some(v) == [some |-> TRUE, val |-> v]

Byte == 0..255

RECURSIVE BitAndN(_, _, _)
BitAndN(a, b, n) ==
    IF n = 0 THEN 0
    ELSE ((a % 2) * (b % 2)) + 2 * BitAndN(a \div 2, b \div 2, n - 1)

RECURSIVE BitOrN(_, _, _)
BitOrN(a, b, n) ==
    IF n = 0 THEN 0
    ELSE (IF (a % 2) + (b % 2) > 0 THEN 1 ELSE 0) + 2 * BitOrN(a \div 2, b \div 2, n - 1)

\* u8 operators: &, |, <<, >>, saturating_sub
BitAnd(a, b) == BitAndN(a, b, 8)
BitOr(a, b) == BitOrN(a, b, 8)
Shl(a, n) == (a * (2 ^ n)) % 256
Shr(a, n) == a \div (2 ^ n)
SaturatingSub(a, b) == IF a >= b THEN a - b ELSE 0

\* buffer[lo..hi] of a 0-based buffer, as a 1-based slice
Slice(buf, lo, hi) == [i \in 1..(hi - lo) |-> buf[lo + i - 1]]
Range(a, b) == [i \in 1..(b - a + 1) |-> a + i - 1]
Repeat(b, n) == [i \in 1..n |-> b]
SeqToBuf(s) == [i \in 0..(Len(s) - 1) |-> s[i + 1]]

(***************************************************************************)
(* iso9660_types.rs: character sets and ArrStr.                            *)
(***************************************************************************)
STR_A_PUNCT == <<32, 33, 34, 37, 38, 39, 40, 41, 42, 43, 44, 45, 46, 47, 58, 59, 60, 61, 62, 63>>

STR_A_CHAR_SET == Range(65, 90) \o Range(97, 122) \o Range(48, 57) \o <<95>> \o STR_A_PUNCT

STR_D_CHAR_SET == Range(65, 90) \o Range(97, 122) \o Range(48, 57) \o <<95>>

\* the bit the source tests and sets for byte b: bit (8 - (b & 7)) - 1 of
\* the bit set's byte b / 8
ByteIndex(b) == b \div 8
BitIndex(b) == SaturatingSub(8 - BitAnd(b, 7), 1)

\* the u8 whose set bits are the bit indexes in S
BitsToByte(S) ==
    LET f[k \in 0..8] == IF k = 8 THEN 0 ELSE (IF k \in S THEN 2 ^ k ELSE 0) + f[k + 1]
    IN  f[0]

\* the loop ors 1 << bit_index into bitset[byte_index] for every byte of the
\* alphabet: byte i of the result has exactly the bits of the alphabet's bytes
\* that fall in it
build_ascii_bit_set(alphabet) ==
    [i \in 0..15 |->
        BitsToByte({BitIndex(alphabet[n]) : n \in {m \in 1..Len(alphabet) : ByteIndex(alphabet[m]) = i}})]

\* a variant of STR_A_CHAR_SET_BIT_SET: the bit set of the D alphabet
STR_A_CHAR_SET_BIT_SET_of_D == build_ascii_bit_set(STR_D_CHAR_SET)
STR_A_CHAR_SET_BIT_SET == build_ascii_bit_set(STR_A_CHAR_SET)

\* the source builds the D bit set from the A alphabet
STR_D_CHAR_SET_BIT_SET == build_ascii_bit_set(STR_A_CHAR_SET)

SetMax(S) == CHOOSE x \in S : \A y \in S : y <= x
SetMin(S) == CHOOSE x \in S : \A y \in S : x <= y

\* a variant of TrailingPad that counts trailing spaces only
TrailingPad_spaces(s) ==
    LET kept == {i \in 1..Len(s) : s[i] # 32}
    IN  IF kept = {} THEN Len(s) ELSE Len(s) - SetMax(kept)

\* slice.iter().rev().take_while(|b| **b == b' ' || **b == 0).count()
TrailingPad(s) ==
    LET kept == {i \in 1..Len(s) : ~(s[i] = 32 \/ s[i] = 0)}
    IN  IF kept = {} THEN Len(s) ELSE Len(s) - SetMax(kept)

\* the validation loop over slice[..len] stops at the first byte that indexes
\* past the [u8; 16] bit set (a panic) or whose bit is not set (InvalidChar)
ScanSubset(slice, len, alphabet) ==
    LET stops == {i \in 1..len :
                    \/ ByteIndex(slice[i]) > 15
                    \/ BitAnd(Shl(1, BitIndex(slice[i])), alphabet[ByteIndex(slice[i])]) = 0}
    IN  IF stops = {} THEN [kind |-> "Ok"]
        ELSE LET b == slice[SetMin(stops)]
             IN  IF ByteIndex(b) > 15 THEN Panic
                 ELSE [kind |-> "Err", err |-> "InvalidChar", code_point |-> b]

\* ArrStr::<LEN>::from_slice_with_ascii_subset; an Ok result carries the raw
\* bytes and the logical length
from_slice_with_ascii_subset(slice, alphabet, LEN) ==
    IF Len(slice) # LEN THEN Panic
    ELSE LET len == LEN - TrailingPad(slice)
             scan == ScanSubset(slice, len, alphabet)
         IN  IF scan.kind = "Ok"
             THEN [kind |-> "Ok", bytes |-> slice, len |-> len]
             ELSE scan

StrA_from_slice(slice, LEN) == from_slice_with_ascii_subset(slice, STR_A_CHAR_SET_BIT_SET, LEN)

StrD_from_slice(slice, LEN) == from_slice_with_ascii_subset(slice, STR_D_CHAR_SET_BIT_SET, LEN)

\* ArrStr::as_str and ArrStr::raw_bytes of an Ok result
as_str(s) == SubSeq(s.bytes, 1, s.len)
\* a variant of raw_bytes that normalises the padding: the logical bytes, the rest space-filled
raw_bytes_repadded(s) == as_str(s) \o [i \in 1..(Len(s.bytes) - s.len) |-> 32]
raw_bytes(s) == s.bytes

(***************************************************************************)
(* iso9660_types.rs: DecDateTime.  Strings compare as Rust's str does:     *)
(* byte by byte, a proper prefix being the smaller.                        *)
(***************************************************************************)
StrLt(a, b) ==
    LET n == IF Len(a) < Len(b) THEN Len(a) ELSE Len(b)
        diff == {i \in 1..n : a[i] # b[i]}
    IN  IF diff = {} THEN Len(a) < Len(b)
        ELSE a[SetMin(diff)] < b[SetMin(diff)]

\* (lo..hi).contains(&x) of a half-open Range<&str>
RangeContains(lo, hi, x) == ~StrLt(x, lo) /\ StrLt(x, hi)

\* "0", "1", "12", "23", "31", "59", "99", "9999"
S0 == <<48>>
S1 == <<49>>
S12 == <<49, 50>>
S23 == <<50, 51>>
S31 == <<51, 49>>
S59 == <<53, 57>>
S99 == <<57, 57>>
S9999 == <<57, 57, 57, 57>>

\* One row per sub-field of try_parse, in the order of the code: the bytes
\* buffer[lo..hi] parsed as StrD<len>, the half-open range chk the contains()
\* test uses, and the inclusive range rng the error reports.
DateSteps == <<
    [name |-> "year",      lo |-> 0,  hi |-> 4,  len |-> 4, chk |-> <<S1, S9999>>, rng |-> <<S1, S9999>>],
    [name |-> "month",     lo |-> 4,  hi |-> 6,  len |-> 2, chk |-> <<S1, S9999>>, rng |-> <<S1, S12>>],
    [name |-> "day",       lo |-> 6,  hi |-> 8,  len |-> 2, chk |-> <<S1, S31>>,   rng |-> <<S1, S31>>],
    [name |-> "hour",      lo |-> 8,  hi |-> 10, len |-> 2, chk |-> <<S0, S23>>,   rng |-> <<S1, S23>>],
    [name |-> "minute",    lo |-> 10, hi |-> 12, len |-> 2, chk |-> <<S0, S59>>,   rng |-> <<S0, S59>>],
    [name |-> "second",    lo |-> 12, hi |-> 14, len |-> 2, chk |-> <<S0, S59>>,   rng |-> <<S0, S59>>],
    [name |-> "centi_sec", lo |-> 14, hi |-> 16, len |-> 2, chk |-> <<S0, S99>>,   rng |-> <<S0, S99>>] >>

\* the string every contains() test of try_parse is applied to: year.as_str()
\* (year is the first parsed field; field is the one just parsed)
CheckedStr(year, field) == as_str(year)

\* the seven steps from step k on; parsed holds the fields parsed so far
RECURSIVE DateFields(_, _, _)
DateFields(buffer, k, parsed) ==
    IF k > Len(DateSteps) THEN [kind |-> "Ok", fields |-> parsed]
    ELSE LET st == DateSteps[k]
             f == StrD_from_slice(SubSeq(buffer, st.lo + 1, st.hi), st.len)
         IN  IF f.kind = "Panic" THEN Panic
             ELSE IF f.kind = "Err"
                  THEN [kind |-> "Err", err |-> "InvalidChar", code_point |-> f.code_point]
             ELSE LET field == [bytes |-> f.bytes, len |-> f.len]
                      year == IF k = 1 THEN field ELSE parsed[1]
                  IN  IF ~RangeContains(st.chk[1], st.chk[2], CheckedStr(year, field))
                      THEN [kind |-> "Err", err |-> "InvalidDate",
                            range |-> st.rng, actual |-> as_str(field)]
                      ELSE DateFields(buffer, k + 1, Append(parsed, field))

\* buffer[16] == 0 && buffer[..16].iter().all(|&b| b == b'0')
IsUnsetPattern(buffer) == buffer[17] = 0 /\ \A i \in 1..16 : buffer[i] = 48

\* DecDateTime::try_parse(buffer): Ok(None), Ok(Some(date)), Err or a panic
DecDateTime_try_parse(buffer) ==
    IF IsUnsetPattern(buffer) THEN [kind |-> "Ok", val |-> None]
    ELSE LET r == DateFields(buffer, 1, <<>>)
         IN  IF r.kind = "Ok"
             THEN [kind |-> "Ok",
                   val |-> Some([year |-> r.fields[1], month |-> r.fields[2], day |-> r.fields[3],
                                 hour |-> r.fields[4], minute |-> r.fields[5], second |-> r.fields[6],
                                 centi_sec |-> r.fields[7], time_zone |-> buffer[17]])]
             ELSE r

\* the fields of the Default impls, in order: StrD::<len>::from_slice(lit).unwrap()
\* with lit = b" 1" or b" 0"
DefaultFields == <<
    [name |-> "year",      len |-> 4, lit |-> <<32, 49>>],
    [name |-> "month",     len |-> 2, lit |-> <<32, 49>>],
    [name |-> "day",       len |-> 2, lit |-> <<32, 49>>],
    [name |-> "hour",      len |-> 2, lit |-> <<32, 48>>],
    [name |-> "minute",    len |-> 2, lit |-> <<32, 48>>],
    [name |-> "second",    len |-> 2, lit |-> <<32, 48>>],
    [name |-> "centi_sec", len |-> 2, lit |-> <<32, 48>>] >>

\* the first n fields built and unwrapped: a panic if one from_slice panics or
\* returns an error, else the field values
DefaultStrings(n) ==
    LET r == [k \in 1..n |-> StrD_from_slice(DefaultFields[k].lit, DefaultFields[k].len)]
    IN  IF \E k \in 1..n : r[k].kind # "Ok" THEN Panic
        ELSE [kind |-> "Ok", fields |-> [k \in 1..n |-> [bytes |-> r[k].bytes, len |-> r[k].len]]]

\* <DecDateTime as Default>::default()
DecDateTime_default ==
    LET r == DefaultStrings(7)
    IN  IF r.kind # "Ok" THEN r
        ELSE [kind |-> "Ok",
              val |-> [year |-> r.fields[1], month |-> r.fields[2], day |-> r.fields[3],
                       hour |-> r.fields[4], minute |-> r.fields[5], second |-> r.fields[6],
                       centi_sec |-> r.fields[7], time_zone |-> 12]]

\* <DirectoryRecordDate as Default>::default()
DirectoryRecordDate_default ==
    LET r == DefaultStrings(6)
    IN  IF r.kind # "Ok" THEN r
        ELSE [kind |-> "Ok",
              val |-> [year |-> r.fields[1], month |-> r.fields[2], day |-> r.fields[3],
                       hour |-> r.fields[4], minute |-> r.fields[5], second |-> r.fields[6],
                       time_zone |-> 12]]

\* lib.rs DirectoryRecordDate::try_parse: the same steps, the value keeps no
\* centi_sec
DirectoryRecordDate_try_parse(buffer) ==
    IF IsUnsetPattern(buffer) THEN [kind |-> "Ok", val |-> None]
    ELSE LET r == DateFields(buffer, 1, <<>>)
         IN  IF r.kind = "Ok"
             THEN [kind |-> "Ok",
                   val |-> Some([year |-> r.fields[1], month |-> r.fields[2], day |-> r.fields[3],
                                 hour |-> r.fields[4], minute |-> r.fields[5], second |-> r.fields[6],
                                 time_zone |-> buffer[17]])]
             ELSE r

(***************************************************************************)
(* lib.rs: writes into a caller's buffer.  A dump threads a write state    *)
(* [kind, buf] through its statements; after a panic nothing more is       *)
(* written.                                                                *)
(***************************************************************************)
Writing(out) == [kind |-> "Ok", buf |-> out]
BufLen(buf) == Cardinality(DOMAIN buf)

\* out[i] = v
SetByte(w, i, v) ==
    IF w.kind # "Ok" THEN w
    ELSE IF i >= BufLen(w.buf) THEN [w EXCEPT !.kind = "Panic"]
    ELSE [w EXCEPT !.buf[i] = v]

\* out[lo..hi].fill(v)
Fill(w, lo, hi, v) ==
    IF w.kind # "Ok" THEN w
    ELSE IF hi > BufLen(w.buf) THEN [w EXCEPT !.kind = "Panic"]
    ELSE [w EXCEPT !.buf = [i \in DOMAIN w.buf |-> IF lo <= i /\ i < hi THEN v ELSE w.buf[i]]]

\* out[lo..hi].copy_from_slice(src): panics unless src has hi - lo bytes
CopyFromSlice(w, lo, hi, src) ==
    IF w.kind # "Ok" THEN w
    ELSE IF hi > BufLen(w.buf) \/ Len(src) # hi - lo THEN [w EXCEPT !.kind = "Panic"]
    ELSE [w EXCEPT !.buf = [i \in DOMAIN w.buf |->
                               IF lo <= i /\ i < hi THEN src[i - lo + 1] ELSE w.buf[i]]]

\* to_le_bytes, from_le_bytes, from_be_bytes of an n-byte unsigned integer
to_le_bytes(v, n) == [i \in 1..n |-> (v \div (256 ^ (i - 1))) % 256]
from_le_bytes(s) == LET f[i \in 0..Len(s)] == IF i = 0 THEN 0 ELSE f[i - 1] + s[i] * (256 ^ (i - 1)) IN f[Len(s)]
from_be_bytes(s) == LET f[i \in 0..Len(s)] == IF i = 0 THEN 0 ELSE 256 * f[i - 1] + s[i] IN f[Len(s)]

\* A u32 is held as its two 16-bit halves [hi, lo] (value hi * 65536 + lo), so
\* that the whole range 0..2^32-1 is representable.
U32(hi, lo) == [hi |-> hi, lo |-> lo]
u32_to_le_bytes(v) == to_le_bytes(v.lo, 2) \o to_le_bytes(v.hi, 2)
u32_from_le_bytes(s) == U32(from_le_bytes(SubSeq(s, 3, 4)), from_le_bytes(SubSeq(s, 1, 2)))
u32_from_be_bytes(s) == U32(from_be_bytes(SubSeq(s, 1, 2)), from_be_bytes(SubSeq(s, 3, 4)))

BoolAsU8(b) == IF b THEN 1 ELSE 0

\* the value of a parsed string: raw bytes and logical length
StrVal(r) == [bytes |-> r.bytes, len |-> r.len]

\* From<InvalidChar> for VDErr, applied by the ? operator
AsVDErr(r) ==
    IF r.kind = "Err"
    THEN [kind |-> "Err", err |-> "InvalidAlphabet", code_point |-> r.code_point]
    ELSE r

\* { let s = StrA::from_slice(..)?; if s.as_str().is_empty() { None } else { Some(s) } }
OptStr(r) == IF Len(as_str(r)) = 0 THEN None ELSE Some(StrVal(r))

(***************************************************************************)
(* lib.rs: the tagged bytes of the boot catalog.                           *)
(***************************************************************************)
PlatformTags == <<[name |-> "X86", tag |-> 0], [name |-> "PPC", tag |-> 1],
                  [name |-> "Mac", tag |-> 2], [name |-> "UEFI", tag |-> 239]>>
BootIndicatorTags == <<[name |-> "NotBootable", tag |-> 0], [name |-> "Bootable", tag |-> 136]>>
BootMediaTags == <<[name |-> "NoEmulation", tag |-> 0], [name |-> "Floppy1_2", tag |-> 1],
                   [name |-> "Floppy1_44", tag |-> 2], [name |-> "Floppy2_88", tag |-> 3],
                   [name |-> "HardDrive", tag |-> 4]>>
HeaderIndicatorTags == <<[name |-> "Partial", tag |-> 144], [name |-> "Final", tag |-> 145]>>

Names(tags) == {tags[i].name : i \in 1..Len(tags)}

\* `name as u8` of a #[repr(u8)] enum
AsU8(tags, name) == tags[CHOOSE i \in 1..Len(tags) : tags[i].name = name].tag

\* TryFrom<u8>: the variant with that tag, or the enum's error carrying the byte
TryFromU8(tags, err, value) ==
    IF \E i \in 1..Len(tags) : tags[i].tag = value
    THEN [kind |-> "Ok", val |-> tags[CHOOSE i \in 1..Len(tags) : tags[i].tag = value].name]
    ELSE [kind |-> "Err", err |-> err, value |-> value]

Platform_try_from(value) == TryFromU8(PlatformTags, "UnknownPlatformId", value)
BootIndicator_try_from(value) == TryFromU8(BootIndicatorTags, "UnknownBootIndicator", value)
BootMedia_try_from(value) == TryFromU8(BootMediaTags, "UnknownBootMedia", value)
HeaderIndicator_try_from(value) == TryFromU8(HeaderIndicatorTags, "UnknownHeaderIndicator", value)

\* SelectionCriteria: None = 0, LanguageAndVersion = 1, Unknown(u8)
SelectionCriteria_into_u8(c) ==
    IF c.tag = "None" THEN 0 ELSE IF c.tag = "LanguageAndVersion" THEN 1 ELSE c.v
SelectionCriteria_from(value) ==
    IF value = 0 THEN [tag |-> "None"]
    ELSE IF value = 1 THEN [tag |-> "LanguageAndVersion"]
    ELSE [tag |-> "Unknown", v |-> value]

(***************************************************************************)
(* lib.rs: ValidationEntry.                                                *)
(***************************************************************************)
ValidationEntry_try_parse(buffer) ==
    LET header_id == buffer[0]
        platform_id == Platform_try_from(buffer[1])
        s == AsVDErr(StrA_from_slice(Slice(buffer, 4, 28), 24))
    IN  IF platform_id.kind # "Ok" THEN platform_id
        ELSE IF s.kind # "Ok" THEN s
        ELSE [kind |-> "Ok",
              val |-> [header_id |-> header_id, platform_id |-> platform_id.val,
                       manufacturer_id |-> OptStr(s)]]

\* a variant of ValidationEntry_dump that zero-fills an absent manufacturer
ValidationEntry_dump_zero_fill(self, out) ==
    LET w1 == SetByte(Writing(out), 0, self.header_id)
        w2 == SetByte(w1, 1, AsU8(PlatformTags, self.platform_id))
        w3 == Fill(w2, 2, 4, 0)
        w4 == IF self.manufacturer_id.some
              THEN CopyFromSlice(w3, 4, 28, raw_bytes(self.manufacturer_id.val))
              ELSE Fill(w3, 4, 28, 0)
        w5 == Fill(w4, 28, 30, 0)
        w6 == SetByte(w5, 30, 85)
    IN  SetByte(w6, 31, 170)

ValidationEntry_dump(self, out) ==
    LET w1 == SetByte(Writing(out), 0, self.header_id)
        w2 == SetByte(w1, 1, AsU8(PlatformTags, self.platform_id))
        w3 == Fill(w2, 2, 4, 0)
        w4 == IF self.manufacturer_id.some
              THEN CopyFromSlice(w3, 4, 28, raw_bytes(self.manufacturer_id.val))
              ELSE Fill(w3, 4, 28, 32)
        w5 == Fill(w4, 28, 30, 0)
        w6 == SetByte(w5, 30, 85)
    IN  SetByte(w6, 31, 170)

(***************************************************************************)
(* lib.rs: InitialEntry.                                                   *)
(***************************************************************************)
InitialEntry_try_parse(buffer) ==
    LET boot_indicator == BootIndicator_try_from(buffer[0])
        boot_media == BootMedia_try_from(buffer[1])
    IN  IF boot_indicator.kind # "Ok" THEN boot_indicator
        ELSE IF boot_media.kind # "Ok" THEN boot_media
        ELSE [kind |-> "Ok",
              val |-> [boot_indicator |-> boot_indicator.val,
                       boot_media |-> boot_media.val,
                       load_segment |-> from_le_bytes(Slice(buffer, 2, 4)),
                       sys_type |-> buffer[4],
                       sector_count |-> from_le_bytes(Slice(buffer, 6, 8)),
                       virtual_disk_addr |-> u32_from_le_bytes(Slice(buffer, 8, 12))]]

\* the write of virtual_disk_addr: out[6..12].copy_from_slice(4 bytes)
InitialEntry_dump_addr(w, self) == CopyFromSlice(w, 6, 12, u32_to_le_bytes(self.virtual_disk_addr))

InitialEntry_dump(self, out) ==
    LET w1 == SetByte(Writing(out), 0, AsU8(BootIndicatorTags, self.boot_indicator))
        w2 == SetByte(w1, 1, AsU8(BootMediaTags, self.boot_media))
        w3 == CopyFromSlice(w2, 2, 4, to_le_bytes(self.load_segment, 2))
        w4 == SetByte(w3, 4, self.sys_type)
        w5 == SetByte(w4, 5, 0)
        w6 == CopyFromSlice(w5, 6, 8, to_le_bytes(self.sector_count, 2))
        w7 == InitialEntry_dump_addr(w6, self)
    IN  Fill(w7, 12, 32, 0)

(***************************************************************************)
(* lib.rs: SectionHeaderEntry.                                             *)
(***************************************************************************)
SectionHeaderEntry_try_parse(buffer) ==
    LET header_indicator == HeaderIndicator_try_from(buffer[0])
        platform_id == Platform_try_from(buffer[1])
        s == AsVDErr(StrA_from_slice(Slice(buffer, 4, 32), 28))
    IN  IF header_indicator.kind # "Ok" THEN header_indicator
        ELSE IF platform_id.kind # "Ok" THEN platform_id
        ELSE IF s.kind # "Ok" THEN s
        ELSE [kind |-> "Ok",
              val |-> [header_indicator |-> header_indicator.val,
                       platform_id |-> platform_id.val,
                       nb_section_entries |-> from_le_bytes(Slice(buffer, 2, 4)),
                       id_str |-> OptStr(s)]]

SectionHeaderEntry_dump(self, out) ==
    LET w1 == SetByte(Writing(out), 0, AsU8(HeaderIndicatorTags, self.header_indicator))
        w2 == SetByte(w1, 1, AsU8(PlatformTags, self.platform_id))
        w3 == CopyFromSlice(w2, 2, 4, to_le_bytes(self.nb_section_entries, 2))
    IN  IF self.id_str.some
        THEN CopyFromSlice(w3, 4, 32, raw_bytes(self.id_str.val))
        ELSE Fill(w3, 4, 32, 32)

(***************************************************************************)
(* lib.rs: SectionEntry.                                                   *)
(***************************************************************************)
SectionEntry_try_parse(buffer) ==
    LET boot_indicator == BootIndicator_try_from(buffer[0])
        boot_media_bits == BitAnd(buffer[1], 3)
        boot_media == BootMedia_try_from(boot_media_bits)
    IN  IF boot_indicator.kind # "Ok" THEN boot_indicator
        ELSE IF boot_media.kind # "Ok" THEN boot_media
        ELSE [kind |-> "Ok",
              val |-> [boot_indicator |-> boot_indicator.val,
                       boot_media |-> boot_media.val,
                       has_continuation_entry |-> BitAnd(buffer[1], Shl(1, 5)) # 0,
                       image_contains_atapi_driver |-> BitAnd(buffer[1], Shl(1, 6)) # 0,
                       image_contains_scsi_driver |-> BitAnd(buffer[1], Shl(1, 7)) # 0,
                       load_segment |-> from_le_bytes(Slice(buffer, 2, 4)),
                       sys_type |-> buffer[4],
                       sector_count |-> from_le_bytes(Slice(buffer, 6, 8)),
                       virtual_disk_addr |-> u32_from_le_bytes(Slice(buffer, 8, 12)),
                       selection_criteria |-> SelectionCriteria_from(buffer[12]),
                       selection_criteria_bytes |-> Slice(buffer, 13, 32)]]

\* second_bit: the media tag or-ed with each flag `as u8 >> n`
SectionEntry_second_bit(self) ==
    LET b0 == AsU8(BootMediaTags, self.boot_media)
        b1 == BitOr(b0, Shr(BoolAsU8(self.has_continuation_entry), 5))
        b2 == BitOr(b1, Shr(BoolAsU8(self.image_contains_atapi_driver), 6))
    IN  BitOr(b2, Shr(BoolAsU8(self.image_contains_scsi_driver), 7))

SectionEntry_dump(self, out) ==
    LET w1 == SetByte(Writing(out), 0, AsU8(BootIndicatorTags, self.boot_indicator))
        w2 == SetByte(w1, 1, SectionEntry_second_bit(self))
        w3 == CopyFromSlice(w2, 2, 4, to_le_bytes(self.load_segment, 2))
        w4 == SetByte(w3, 4, self.sys_type)
        w5 == SetByte(w4, 5, 0)
        w6 == CopyFromSlice(w5, 6, 8, to_le_bytes(self.sector_count, 2))
        w7 == CopyFromSlice(w6, 8, 12, u32_to_le_bytes(self.virtual_disk_addr))
        w8 == SetByte(w7, 12, SelectionCriteria_into_u8(self.selection_criteria))
    IN  CopyFromSlice(w8, 13, 32, self.selection_criteria_bytes)

(***************************************************************************)
(* lib.rs: BootRecord.                                                     *)
(***************************************************************************)
SECTOR_SIZE == 2048
\* "CD001"
VD_IDENT == <<67, 68, 48, 48, 49>>
\* "EL TORITO SPECIFICATION"
EL_TORITO_SPECIFICATION_STR ==
    <<69, 76, 32, 84, 79, 82, 73, 84, 79, 32, 83, 80, 69, 67, 73, 70, 73, 67, 65, 84, 73, 79, 78>>

BootRecord_try_parse(buffer) ==
    LET s1 == AsVDErr(StrA_from_slice(Slice(buffer, 7, 39), 32))
        s2 == AsVDErr(StrA_from_slice(Slice(buffer, 39, 71), 32))
    IN  IF s1.kind # "Ok" THEN s1
        ELSE IF s2.kind # "Ok" THEN s2
        ELSE [kind |-> "Ok",
              val |-> [boot_sys_ident |-> OptStr(s1), boot_ident |-> OptStr(s2)]]

read_el_torino_boot_catalog_off(buffer) == u32_from_le_bytes(Slice(buffer, 71, 75))

\* the write of the specification name: out[6..39].copy_from_slice(23 bytes)
BootRecord_dump_spec_name(w) == CopyFromSlice(w, 6, 39, EL_TORITO_SPECIFICATION_STR)

BootRecord_dump(self, boot_record_addr, out) ==
    LET w1 == SetByte(Writing(out), 0, 0)
        w2 == CopyFromSlice(w1, 1, 6, VD_IDENT)
        w3 == BootRecord_dump_spec_name(w2)
        w4 == Fill(w3, 39, 71, 0)
        w5 == CopyFromSlice(w4, 71, 75, u32_to_le_bytes(boot_record_addr))
    IN  Fill(w5, 75, 2048, 0)

(***************************************************************************)
(* iso9660_types.rs: double_endian.  endian is the build's target_endian;  *)
(* from_ne_bytes reads in that byte order.                                 *)
(***************************************************************************)
TargetEndians == {"little", "big"}

\* iN::from_ne_bytes of the bytes of an unsigned pattern: two's complement
AsI16(v) == IF v >= 32768 THEN v - 65536 ELSE v
AsI32(v) == (IF v.hi >= 32768 THEN v.hi - 65536 ELSE v.hi) * 65536 + v.lo

\* a variant of double_endian_u32 that reads the little-endian half on every target
double_endian_u32_le_half(slice, endian) == u32_from_le_bytes(SubSeq(slice, 1, 4))

double_endian_u16(slice, endian) ==
    IF endian = "little"
    THEN from_le_bytes(SubSeq(slice, 1, 2))
    ELSE from_be_bytes(SubSeq(slice, 3, 4))

double_endian_i16(slice, endian) == AsI16(double_endian_u16(slice, endian))

double_endian_u32(slice, endian) ==
    IF endian = "little"
    THEN u32_from_le_bytes(SubSeq(slice, 1, 4))
    ELSE u32_from_be_bytes(SubSeq(slice, 5, 8))

double_endian_i32(slice, endian) == AsI32(double_endian_u32(slice, endian))

(***************************************************************************)
(* lib.rs: VD::read_header.                                                *)
(***************************************************************************)
DATA_START == 32768

VDTypeTags == <<[name |-> "BootRecord", tag |-> 0], [name |-> "PrimaryVD", tag |-> 1],
                [name |-> "EVD", tag |-> 2], [name |-> "PartDes", tag |-> 3],
                [name |-> "VDEnd", tag |-> 255]>>

\* TryFrom<u8> for VDType: its error type is UnknownVersion
VDType_try_from(value) == TryFromU8(VDTypeTags, "UnknownVersion", value)

VD_read_header(buffer) ==
    LET ty == VDType_try_from(buffer[0])
        ident == Slice(buffer, 1, 6)
        version == buffer[6]
    IN  IF ty.kind # "Ok" THEN ty
        ELSE IF ident # VD_IDENT THEN [kind |-> "Err", err |-> "UnknownIdent", value |-> ident]
        ELSE IF version # 1 THEN [kind |-> "Err", err |-> "UnknownVersion", value |-> version]
        ELSE [kind |-> "Ok", val |-> [ty |-> ty.val, version |-> version]]

(***************************************************************************)
(* lib.rs: PVD::try_parse.  The fallible steps run in the order of the     *)
(* code and the first error or panic ends the parse.                       *)
(***************************************************************************)
\* From<DecDateTimeErr> for VDErr
DateAsVDErr(r) ==
    IF r.kind = "Err" /\ r.err = "InvalidChar"
    THEN [kind |-> "Err", err |-> "InvalidAlphabet", code_point |-> r.code_point]
    ELSE r

\* match u32 { 0 => None, v => Some(v) }
OptU32(v) == IF v = U32(0, 0) THEN None ELSE Some(v)

\* the slice the data-preparer identifier is parsed from: &buffer[445..574]
DataPrepSlice(buffer) == Slice(buffer, 445, 574)

\* a long identifier: Some(StrA::<127>::from_slice(slice)?) if the marker byte
\* is 0x5f, else None; as a parse result whose val is the Option
LongIdent(buffer, marker, slice) ==
    IF buffer[marker] = 95
    THEN LET r == AsVDErr(StrA_from_slice(slice, 127))
         IN  IF r.kind = "Ok" THEN [kind |-> "Ok", val |-> Some(StrVal(r))] ELSE r
    ELSE [kind |-> "Ok", val |-> None]

\* a string field that is None when empty, as a parse result whose val is the Option
OptField(r) == IF r.kind = "Ok" THEN [kind |-> "Ok", val |-> OptStr(r)] ELSE AsVDErr(r)

\* the fallible steps of PVD::try_parse, in order
PVDSteps(buffer) == <<
    [name |-> "sys_ident",       r |-> OptField(StrA_from_slice(Slice(buffer, 8, 40), 32))],
    [name |-> "vol_ident",       r |-> OptField(StrD_from_slice(Slice(buffer, 40, 72), 32))],
    [name |-> "vol_set_ident",   r |-> OptField(StrD_from_slice(Slice(buffer, 190, 318), 128))],
    [name |-> "publisher_ident", r |-> LongIdent(buffer, 318, Slice(buffer, 319, 446))],
    [name |-> "data_prep_ident", r |-> LongIdent(buffer, 446, DataPrepSlice(buffer))],
    [name |-> "app_ident",       r |-> LongIdent(buffer, 574, Slice(buffer, 575, 702))],
    [name |-> "copyright_file_name",      r |-> OptField(StrD_from_slice(Slice(buffer, 702, 739), 37))],
    [name |-> "abstract_file_name",       r |-> OptField(StrD_from_slice(Slice(buffer, 739, 776), 37))],
    [name |-> "bibliographic_file_name",  r |-> OptField(StrD_from_slice(Slice(buffer, 776, 813), 37))],
    [name |-> "vol_create_date_time",     r |-> DateAsVDErr(DecDateTime_try_parse(Slice(buffer, 813, 830)))],
    [name |-> "vol_mod_date_time",        r |-> DateAsVDErr(DecDateTime_try_parse(Slice(buffer, 830, 847)))],
    [name |-> "vol_expiration_date_time", r |-> DateAsVDErr(DecDateTime_try_parse(Slice(buffer, 847, 864)))],
    [name |-> "vol_effective_date_time",  r |-> DateAsVDErr(DecDateTime_try_parse(Slice(buffer, 864, 881)))],
    [name |-> "version",
     r |-> IF buffer[881] # 1
           THEN [kind |-> "Err", err |-> "UnknownVersion", value |-> buffer[881]]
           ELSE [kind |-> "Ok", val |-> buffer[881]]] >>

\* the value built once every step has succeeded, or the first failure
PVDResult(buffer, endian, steps) ==
    LET failed == {k \in 1..Len(steps) : steps[k].r.kind # "Ok"}
        F(k) == steps[k].r.val
    IN  IF failed # {} THEN steps[SetMin(failed)].r
        ELSE [kind |-> "Ok",
              val |-> [sys_ident |-> F(1),
                       vol_ident |-> F(2),
                       vol_space_size |-> double_endian_u32(Slice(buffer, 80, 88), endian),
                       vol_set_size |-> double_endian_u16(Slice(buffer, 120, 124), endian),
                       vol_seq_num |-> double_endian_u16(Slice(buffer, 124, 128), endian),
                       logical_block_size |-> double_endian_u16(Slice(buffer, 128, 132), endian),
                       path_table_size |-> double_endian_u32(Slice(buffer, 132, 140), endian),
                       path_table_l_location |-> u32_from_le_bytes(Slice(buffer, 140, 144)),
                       opt_path_table_l_location |-> OptU32(u32_from_le_bytes(Slice(buffer, 144, 148))),
                       path_table_m_location |-> u32_from_be_bytes(Slice(buffer, 148, 152)),
                       opt_path_table_m_location |-> OptU32(u32_from_be_bytes(Slice(buffer, 152, 156))),
                       vol_set_ident |-> F(3),
                       publisher_ident |-> F(4),
                       data_prep_ident |-> F(5),
                       app_ident |-> F(6),
                       copyright_file_name |-> F(7),
                       abstract_file_name |-> F(8),
                       bibliographic_file_name |-> F(9),
                       vol_create_date_time |-> F(10),
                       vol_mod_date_time |-> F(11),
                       vol_expiration_date_time |-> F(12),
                       vol_effective_date_time |-> F(13),
                       application_used |-> IF F(6).some THEN Some(Slice(buffer, 883, 1395)) ELSE None]]

\* PVD::try_parse(buffer); the steps are computed once
PVD_try_parse(buffer, endian) ==
    CHOOSE r \in {PVDResult(buffer, endian, steps) : steps \in {PVDSteps(buffer)}} : TRUE

(***************************************************************************)
(* Components at rest: each specification below exercises one component    *)
(* and leaves the others in these states.                                  *)
(***************************************************************************)
StrIdle  == sSlice = <<>> /\ sSet = "none" /\ sRes = NotRun
DateIdle == dBuf = <<>> /\ dRes = NotRun /\ rRes = NotRun /\ dDef = NotRun /\ rDef = NotRun
EntIdle  == eKind = "none" /\ eX = None /\ eOut = <<>> /\ eDump = NotRun /\ eParsed = NotRun
BootIdle == bX = None /\ bAddr = 0 /\ bOut = <<>> /\ bDump = NotRun /\ bParsed = NotRun /\ bOff = NotRun
HdrIdle  == hBuf = <<>> /\ hRes = NotRun
EndianIdle == deSlice = <<>> /\ deTarget = "none" /\ deRes = NotRun
PVDIdle  == pSector = <<>> /\ pTarget = "none" /\ pRes = NotRun
CodecIdle == HdrIdle /\ EndianIdle /\ PVDIdle
WalkIdle ==
    /\ stream = <<>> /\ tail = 0 /\ target = "none" /\ wPc = "idle" /\ pos = 0 /\ off = 0
    /\ sector = None /\ header = NotRun /\ reads = <<>> /\ nPVD = 0 /\ nBoot = 0 /\ trace = <<>>

(***************************************************************************)
(* Fixed strings: StrA::from_slice and StrD::from_slice applied to every   *)
(* buffer of 1..MaxStrLen sample bytes.                                    *)
(***************************************************************************)
\* NUL, space, 'A', '1', '_', '!', '#', DEL, 0x80, 0xff
StrSampleBytes == {0, 32, 65, 49, 95, 33, 35, 127, 128, 255}

\* every buffer of 1..MaxStrLen sample bytes, every one-byte buffer, and the
\* 83 bytes of the A alphabet (the buffer of the crate's test_bit_mask)
StrInputs ==
    UNION {[1..n -> StrSampleBytes] : n \in 1..MaxStrLen}
        \cup {<<b>> : b \in Byte} \cup {STR_A_CHAR_SET}

StrInit ==
    /\ sSlice \in StrInputs
    /\ sSet = "none"
    /\ sRes = NotRun
    /\ DateIdle /\ EntIdle /\ BootIdle /\ WalkIdle /\ CodecIdle

ParseStrA ==
    /\ sRes = NotRun
    /\ sSet' = "A"
    /\ sRes' = StrA_from_slice(sSlice, Len(sSlice))
    /\ UNCHANGED <<sSlice, dateVars, entVars, bootVars, walkVars, codecVars>>

ParseStrD ==
    /\ sRes = NotRun
    /\ sSet' = "D"
    /\ sRes' = StrD_from_slice(sSlice, Len(sSlice))
    /\ UNCHANGED <<sSlice, dateVars, entVars, bootVars, walkVars, codecVars>>

StrNext == ParseStrA \/ ParseStrD

SpecStr == StrInit /\ [][StrNext]_vars

Elems(s) == {s[i] : i \in 1..Len(s)}

\* positions of the slice holding a byte outside the alphabet
Outside(slice, alphabet) == {i \in 1..Len(slice) : slice[i] \notin Elems(alphabet)}

\* C5: (charset rejection, for the A set and a byte of the logical portion) when
\* StrA::from_slice has parsed a buffer whose only byte outside the A alphabet
\* is b, at a position before the trailing pad, the result is the typed error
\* InvalidChar with code_point = b: it is never an acceptance and never a panic.
C5_CharsetRejection ==
    (/\ sSet = "A"
     /\ Cardinality(Outside(sSlice, STR_A_CHAR_SET)) = 1
     /\ \A i \in Outside(sSlice, STR_A_CHAR_SET) : i <= Len(sSlice) - TrailingPad(sSlice))
    => \A i \in Outside(sSlice, STR_A_CHAR_SET) :
          sRes = [kind |-> "Err", err |-> "InvalidChar", code_point |-> sSlice[i]]

\* the length of the content of a buffer: up to its last byte that is neither
\* space nor zero
ContentLen(s) ==
    IF \A i \in 1..Len(s) : s[i] \in {32, 0} THEN 0
    ELSE SetMax({i \in 1..Len(s) : s[i] \notin {32, 0}})

\* the content of a buffer, before its trailing pad
Content(s) == SubSeq(s, 1, ContentLen(s))

\* the positions of the content holding a byte of the A set that is not in the D set
PunctInContent(s) ==
    {i \in 1..ContentLen(s) : s[i] \in Elems(STR_A_CHAR_SET) \ Elems(STR_D_CHAR_SET)}

\* C13: (D-charset restriction) StrD::from_slice accepts only letters, digits
\* and underscore in the logical portion of the buffer; a buffer whose logical
\* portion is in the A set and holds a byte that is not in the D set (an inner
\* space or a punctuation character) is rejected with InvalidChar carrying
\* that byte.
C13_DCharsetRestriction ==
    (sSet = "D" /\ sRes # NotRun) =>
        /\ sRes.kind = "Ok" => Elems(Content(sSlice)) \subseteq Elems(STR_D_CHAR_SET)
        /\ (Elems(Content(sSlice)) \subseteq Elems(STR_A_CHAR_SET) /\ PunctInContent(sSlice) # {})
              => \E i \in PunctInContent(sSlice) :
                    sRes = [kind |-> "Err", err |-> "InvalidChar", code_point |-> sSlice[i]]

\* the alphabet the parse last applied declares
DeclaredSet == IF sSet = "A" THEN STR_A_CHAR_SET ELSE STR_D_CHAR_SET

\* C14: (pad trimming) a buffer made of a valid content of k bytes, whose last
\* byte is neither space nor zero, followed by any mixture of trailing space
\* and zero bytes parses successfully with logical length k and logical
\* content equal to that prefix; the pad bytes are not validated.
C14_PadTrimming ==
    (sRes # NotRun /\ Elems(Content(sSlice)) \subseteq Elems(DeclaredSet)) =>
        /\ sRes.kind = "Ok"
        /\ sRes.len = ContentLen(sSlice)
        /\ as_str(sRes) = Content(sSlice)
        /\ raw_bytes(sRes) = sSlice

\* a content of one byte followed by a space and a zero byte, parsed
C14_Witness ==
    /\ sSlice = <<65, 32, 0>>
    /\ sRes.kind = "Ok"
    /\ sRes.len = 1

\* C18: (A-charset acceptance) the space character is in the A alphabet, and a
\* buffer whose bytes are all drawn from the A alphabet is accepted by
\* StrA::from_slice: in particular every one-byte buffer holding a byte of the
\* alphabet, and the buffer of the whole alphabet.
C18_ACharsetAcceptance ==
    /\ 32 \in Elems(STR_A_CHAR_SET)
    /\ (sSet = "A" /\ sRes # NotRun /\ Elems(sSlice) \subseteq Elems(STR_A_CHAR_SET)) =>
           /\ sRes.kind = "Ok"
           /\ raw_bytes(sRes) = sSlice
           /\ sRes.len = ContentLen(sSlice)

\* the whole A alphabet parsed as one buffer
C18_Witness ==
    /\ sSlice = STR_A_CHAR_SET
    /\ sSet = "A"
    /\ sRes.kind = "Ok"
    /\ sRes.len = 83

(***************************************************************************)
(* Dates: DecDateTime::try_parse and DirectoryRecordDate::try_parse        *)
(* applied to 17-byte buffers: every combination of the sample digit       *)
(* strings below, and buffers with raw zero bytes, a byte outside the      *)
(* charset, a byte above 0x7f or space padding.                            *)
(***************************************************************************)
\* the w ASCII digits of n
Dec(n, w) == [i \in 1..w |-> 48 + ((n \div (10 ^ (w - i))) % 10)]

SampleYears    == {0, 1, 1999, 2299, 2400, 3200, 9999}
SampleMonths   == {0, 1, 12, 13}
SampleDays     == {0, 1, 31, 32}
SampleHours    == {0, 23, 24}
SampleMinutes  == {0, 59, 60}
SampleSeconds  == {0, 59, 60}
SampleCentis   == {0, 99}
SampleZones    == {0, 12}

DigitBuffers ==
    {Dec(y, 4) \o Dec(mo, 2) \o Dec(d, 2) \o Dec(h, 2) \o Dec(mi, 2) \o Dec(se, 2) \o Dec(c, 2) \o <<tz>> :
        y \in SampleYears, mo \in SampleMonths, d \in SampleDays, h \in SampleHours,
        mi \in SampleMinutes, se \in SampleSeconds, c \in SampleCentis, tz \in SampleZones}

\* "19990101000000" with the year, or the month, replaced
WithYear(y4) == y4 \o Dec(1, 2) \o Dec(1, 2) \o Dec(0, 8) \o <<0>>
WithMonth(m2) == Dec(1999, 4) \o m2 \o Dec(1, 2) \o Dec(0, 8) \o <<0>>

SpecialBuffers ==
    {Repeat(0, 16) \o <<tz>> : tz \in SampleZones}
    \cup {WithYear(<<128, 48, 48, 49>>), WithYear(<<49, 57, 35, 57>>), WithYear(<<49, 32, 32, 32>>),
          WithYear(<<49, 57, 128, 57>>), WithYear(<<0, 0, 0, 0>>)}
    \cup {WithMonth(<<49, 128>>), WithMonth(<<35, 49>>), WithMonth(<<0, 0>>), WithMonth(<<49, 32>>)}

DateInit ==
    /\ dBuf \in DigitBuffers \cup SpecialBuffers
    /\ dRes = NotRun
    /\ rRes = NotRun
    /\ dDef = NotRun
    /\ rDef = NotRun
    /\ StrIdle /\ EntIdle /\ BootIdle /\ WalkIdle /\ CodecIdle

ParseDecDateTime ==
    /\ dRes = NotRun /\ rRes = NotRun
    /\ dRes' = DecDateTime_try_parse(dBuf)
    /\ UNCHANGED <<dBuf, rRes, dDef, rDef, strVars, entVars, bootVars, walkVars, codecVars>>

ParseDirectoryRecordDate ==
    /\ dRes = NotRun /\ rRes = NotRun
    /\ rRes' = DirectoryRecordDate_try_parse(dBuf)
    /\ UNCHANGED <<dBuf, dRes, dDef, rDef, strVars, entVars, bootVars, walkVars, codecVars>>

\* DecDateTime::default(), before any parse
DefaultDecDateTime ==
    /\ dRes = NotRun /\ rRes = NotRun /\ dDef = NotRun /\ rDef = NotRun
    /\ dDef' = DecDateTime_default
    /\ UNCHANGED <<dBuf, dRes, rRes, rDef, strVars, entVars, bootVars, walkVars, codecVars>>

\* DirectoryRecordDate::default(), before any parse
DefaultDirectoryRecordDate ==
    /\ dRes = NotRun /\ rRes = NotRun /\ dDef = NotRun /\ rDef = NotRun
    /\ rDef' = DirectoryRecordDate_default
    /\ UNCHANGED <<dBuf, dRes, rRes, dDef, strVars, entVars, bootVars, walkVars, codecVars>>

DateNext ==
    \/ ParseDecDateTime
    \/ ParseDirectoryRecordDate
    \/ DefaultDecDateTime
    \/ DefaultDirectoryRecordDate

SpecDate == DateInit /\ [][DateNext]_vars

\* what the claims say of a buffer: its sub-fields as decimal numbers and each
\* sub-field's own range (year 1-9999, month 1-12, day 1-31, hour 0-23,
\* minute 0-59, second 0-59, centisecond 0-99)
AllDigits(buf) == \A i \in 1..16 : buf[i] \in 48..57
DecVal(s) == LET f[i \in 0..Len(s)] == IF i = 0 THEN 0 ELSE 10 * f[i - 1] + (s[i] - 48) IN f[Len(s)]
SubField(buf, k) == SubSeq(buf, DateSteps[k].lo + 1, DateSteps[k].hi)
OwnRange == <<<<1, 9999>>, <<1, 12>>, <<1, 31>>, <<0, 23>>, <<0, 59>>, <<0, 59>>, <<0, 99>>>>
OwnRangeStr == <<<<S1, S9999>>, <<S1, S12>>, <<S1, S31>>, <<S0, S23>>, <<S0, S59>>, <<S0, S59>>, <<S0, S99>>>>
InOwnRange(buf, k) == DecVal(SubField(buf, k)) \in OwnRange[k][1]..OwnRange[k][2]
OutOfRange(buf) == {k \in 2..7 : ~InOwnRange(buf, k)}
UnsetSentinel(buf) == buf = Repeat(48, 16) \o <<0>>
RawZeroBuffer == Repeat(0, 17)
OkNone == [kind |-> "Ok", val |-> None]
DateResults == {r \in {dRes, rRes} : r # NotRun}

\* C6: (per-field date validation) when try_parse has run on a buffer of digits
\* that is not the unset sentinel, whose year is in 1..9999 and passes the
\* year step, and whose month, day, hour, minute, second or centisecond is
\* outside its own range, the result is InvalidDate carrying the range and the
\* value of the first such sub-field.
C6_PerFieldValidation ==
    \A r \in DateResults :
        (/\ AllDigits(dBuf) /\ ~UnsetSentinel(dBuf)
         /\ InOwnRange(dBuf, 1) /\ RangeContains(S1, S9999, SubField(dBuf, 1))
         /\ OutOfRange(dBuf) # {})
        => LET k == SetMin(OutOfRange(dBuf))
           IN  r = [kind |-> "Err", err |-> "InvalidDate",
                    range |-> OwnRangeStr[k], actual |-> SubField(dBuf, k)]

\* C7: (in-range dates are accepted) when DecDateTime::try_parse has run on a
\* buffer of digits that is not the unset sentinel and whose seven sub-fields
\* are all in their ranges, the result is Some(date) holding the seven
\* sub-fields and the timezone byte.
C7_InRangeAccepted ==
    (/\ dRes # NotRun
     /\ AllDigits(dBuf) /\ ~UnsetSentinel(dBuf)
     /\ \A k \in 1..7 : InOwnRange(dBuf, k))
    => LET F(k) == [bytes |-> SubField(dBuf, k), len |-> Len(SubField(dBuf, k))]
       IN  dRes = [kind |-> "Ok",
                   val |-> Some([year |-> F(1), month |-> F(2), day |-> F(3), hour |-> F(4),
                                 minute |-> F(5), second |-> F(6), centi_sec |-> F(7),
                                 time_zone |-> dBuf[17]])]

\* C8: (date sentinel) when DecDateTime::try_parse has run, the result is
\* Ok(None) exactly when the buffer is sixteen '0' digits and a zero byte, and
\* for any other buffer it is Some(date) or an error.
C8_DateSentinel ==
    dRes # NotRun =>
        /\ (dRes = OkNone) <=> UnsetSentinel(dBuf)
        /\ ~UnsetSentinel(dBuf) => \/ (dRes.kind = "Ok" /\ dRes.val.some)
                                   \/ dRes.kind = "Err"

\* the first half of C8 alone: Ok(None) exactly for the sentinel
C8_NoneOnlyForSentinel == dRes # NotRun => ((dRes = OkNone) <=> UnsetSentinel(dBuf))

\* C9: (raw-zero unset date) when DecDateTime::try_parse has run on the buffer
\* of seventeen raw zero bytes, the result is Ok(None).
C9_RawZeroUnset == (dRes # NotRun /\ dBuf = RawZeroBuffer) => dRes = OkNone

\* the number a field of decimal digits, possibly space-padded, stands for
FieldNumber(f) ==
    LET digits == SelectSeq(as_str(f), LAMBDA b : b # 32)
    IN  IF digits # <<>> /\ (\A i \in 1..Len(digits) : digits[i] \in 48..57) THEN DecVal(digits) ELSE -1

\* year 1, month 1, day 1, hour 0, minute 0, second 0
IsFirstOfJanuaryYear1(d) ==
    /\ FieldNumber(d.year) = 1 /\ FieldNumber(d.month) = 1 /\ FieldNumber(d.day) = 1
    /\ FieldNumber(d.hour) = 0 /\ FieldNumber(d.minute) = 0 /\ FieldNumber(d.second) = 0

\* C15: (default date) constructing the default DecDateTime and the default
\* DirectoryRecordDate completes normally and yields 0001-01-01T00:00:00:
\* year 1, month 1, day 1, hour 0, minute 0, second 0 (centisecond 0) with
\* time zone offset 12.
C15_DefaultDate ==
    /\ dDef # NotRun =>
          /\ dDef.kind = "Ok"
          /\ IsFirstOfJanuaryYear1(dDef.val)
          /\ FieldNumber(dDef.val.centi_sec) = 0
          /\ dDef.val.time_zone = 12
    /\ rDef # NotRun =>
          /\ rDef.kind = "Ok"
          /\ IsFirstOfJanuaryYear1(rDef.val)
          /\ rDef.val.time_zone = 12

(***************************************************************************)
(* Boot catalog entries: a value of each entry type is dumped into a       *)
(* 32-byte slot and the slot is parsed back; raw slots are parsed as each  *)
(* entry type.                                                             *)
(***************************************************************************)
PadKinds == {"space", "zero", "mixed"}
Padding(n, kind) ==
    [i \in 1..n |-> IF kind = "space" THEN 32
                    ELSE IF kind = "zero" THEN 0
                    ELSE IF i % 2 = 1 THEN 0 ELSE 32]

\* contents of 'A', '1' and space, not ending in a pad byte
IdentContents ==
    {c \in UNION {[1..k -> {65, 49, 32}] : k \in 1..MaxContent} : c[Len(c)] # 32}
IdentBuffers(N) == {c \o Padding(N - Len(c), kind) : c \in IdentContents, kind \in PadKinds}

\* the StrA<N> values StrA::from_slice builds from those buffers
StrAValues(N) ==
    {StrVal(r) : r \in {q \in {StrA_from_slice(b, N) : b \in IdentBuffers(N)} : q.kind = "Ok"}}
OptStrA(N) == {None} \cup {Some(v) : v \in {u \in StrAValues(N) : u.len > 0}}

ValidationEntries ==
    [header_id : {0, 1, 255}, platform_id : Names(PlatformTags), manufacturer_id : OptStrA(24)]
InitialEntries ==
    [boot_indicator : Names(BootIndicatorTags), boot_media : Names(BootMediaTags),
     load_segment : {0, 1984}, sys_type : {0, 239}, sector_count : {4, 4660},
     virtual_disk_addr : {U32(0, 19), U32(4660, 22136), U32(65535, 65535)}]
SectionHeaderEntries ==
    [header_indicator : Names(HeaderIndicatorTags), platform_id : Names(PlatformTags),
     nb_section_entries : {0, 1, 4660, 65535}, id_str : OptStrA(28)]
SectionEntries ==
    [boot_indicator : Names(BootIndicatorTags), boot_media : Names(BootMediaTags),
     has_continuation_entry : BOOLEAN, image_contains_atapi_driver : BOOLEAN,
     image_contains_scsi_driver : BOOLEAN,
     load_segment : {0, 1984}, sys_type : {0, 239}, sector_count : {4660},
     virtual_disk_addr : {U32(4660, 22136), U32(65535, 65535)},
     selection_criteria : {[tag |-> "None"], [tag |-> "LanguageAndVersion"], [tag |-> "Unknown", v |-> 7]},
     selection_criteria_bytes : {Repeat(0, 19), Range(1, 19)}]

EntryValues(kind) ==
    IF kind = "validation" THEN ValidationEntries
    ELSE IF kind = "initial" THEN InitialEntries
    ELSE IF kind = "header" THEN SectionHeaderEntries
    ELSE SectionEntries

EntryKinds == {"validation", "initial", "header", "section"}

\* the caller's slot before a dump
FreshSlots == {[i \in 0..31 |-> 0], [i \in 0..31 |-> 255]}

\* slots read from a catalog sector: a first byte, a second byte, the rest
RawSlots ==
    {[i \in 0..31 |-> IF i = 0 THEN b0 ELSE IF i = 1 THEN b1 ELSE rest] :
        b0 \in {0, 1, 7, 136, 144, 145}, b1 \in {0, 1, 4, 5, 34, 227, 239}, rest \in {0, 32, 35, 65, 128}}

EntInit ==
    /\ eKind \in EntryKinds
    /\ \/ eX \in {Some(x) : x \in EntryValues(eKind)} /\ eOut \in FreshSlots
       \/ eX = None /\ eOut \in RawSlots
    /\ eDump = NotRun
    /\ eParsed = NotRun
    /\ StrIdle /\ DateIdle /\ BootIdle /\ WalkIdle /\ CodecIdle

\* self.dump(&mut out) for the value held
Dumps(kind, w) ==
    /\ eKind = kind
    /\ eX.some
    /\ eDump = NotRun
    /\ eDump' = [kind |-> w.kind]
    /\ eOut' = w.buf
    /\ UNCHANGED <<eKind, eX, eParsed, strVars, dateVars, bootVars, walkVars, codecVars>>

\* try_parse(&out) of a raw slot, or of the slot a dump has written
Parses(kind, r) ==
    /\ eKind = kind
    /\ eParsed = NotRun
    /\ eX.some => eDump.kind = "Ok"
    /\ eParsed' = r
    /\ UNCHANGED <<eKind, eX, eOut, eDump, strVars, dateVars, bootVars, walkVars, codecVars>>

DumpValidationEntry == Dumps("validation", ValidationEntry_dump(eX.val, eOut))
ParseValidationEntry == Parses("validation", ValidationEntry_try_parse(eOut))
DumpInitialEntry == Dumps("initial", InitialEntry_dump(eX.val, eOut))
ParseInitialEntry == Parses("initial", InitialEntry_try_parse(eOut))
DumpSectionHeaderEntry == Dumps("header", SectionHeaderEntry_dump(eX.val, eOut))
ParseSectionHeaderEntry == Parses("header", SectionHeaderEntry_try_parse(eOut))
DumpSectionEntry == Dumps("section", SectionEntry_dump(eX.val, eOut))
ParseSectionEntry == Parses("section", SectionEntry_try_parse(eOut))

EntNext ==
    \/ DumpValidationEntry \/ ParseValidationEntry
    \/ DumpInitialEntry \/ ParseInitialEntry
    \/ DumpSectionHeaderEntry \/ ParseSectionHeaderEntry
    \/ DumpSectionEntry \/ ParseSectionEntry

SpecEnt == EntInit /\ [][EntNext]_vars

\* C1: (SectionEntry round-trip) once a SectionEntry x has been dumped, the dump
\* has completed, and once the written slot has been parsed, the parse has
\* returned a value equal to x in every field.
C1_SectionEntryRoundTrip ==
    (eKind = "section" /\ eX.some) =>
        /\ eDump # NotRun => eDump.kind = "Ok"
        /\ eParsed # NotRun => eParsed = [kind |-> "Ok", val |-> eX.val]

\* C2: (InitialEntry round-trip) the dump of an InitialEntry x completes
\* normally, and the parse of the written slot returns a value equal to x.
C2_InitialEntryRoundTrip ==
    (eKind = "initial" /\ eX.some) =>
        /\ eDump # NotRun => eDump.kind = "Ok"
        /\ eParsed # NotRun => eParsed = [kind |-> "Ok", val |-> eX.val]

\* C4: (ValidationEntry and SectionHeaderEntry round-trip) the dump of a
\* ValidationEntry or SectionHeaderEntry x, whose identifier is None or a
\* non-empty string, completes, and the parse of the written slot returns a
\* value equal to x: same tags, same count, same string bytes and length.
C4_ValidationHeaderRoundTrip ==
    (eKind \in {"validation", "header"} /\ eX.some) =>
        /\ eDump # NotRun => eDump.kind = "Ok"
        /\ eParsed # NotRun => eParsed = [kind |-> "Ok", val |-> eX.val]

\* a SectionHeaderEntry with a zero-padded identifier and a two-byte count has
\* made the round trip
C4_Witness ==
    /\ eKind = "header" /\ eX.some
    /\ eX.val.id_str.some /\ eX.val.id_str.val.bytes[28] = 0
    /\ eX.val.nb_section_entries = 4660
    /\ eDump.kind = "Ok"
    /\ eParsed = [kind |-> "Ok", val |-> eX.val]

\* the platform identifiers of the El Torito format
PlatformByte(name) ==
    CASE name = "X86" -> 0 [] name = "PPC" -> 1 [] name = "Mac" -> 2 [] name = "UEFI" -> 239

\* C17: (ValidationEntry dump layout) dump writes byte 0 = header_id, byte 1 =
\* the platform tag (X86 = 0), bytes 30 and 31 = 0x55 and 0xAA and, when
\* manufacturer_id is None, bytes 4..28 all space.
C17_ValidationEntryDumpLayout ==
    (eKind = "validation" /\ eX.some /\ eDump # NotRun) =>
        /\ eDump.kind = "Ok"
        /\ eOut[0] = eX.val.header_id
        /\ eOut[1] = PlatformByte(eX.val.platform_id)
        /\ eOut[30] = 85
        /\ eOut[31] = 170
        /\ ~eX.val.manufacturer_id.some => \A i \in 4..27 : eOut[i] = 32

\* {header_id: 1, platform_id: X86, manufacturer_id: None} dumped
C17_Witness ==
    /\ eKind = "validation"
    /\ eX = Some([header_id |-> 1, platform_id |-> "X86", manufacturer_id |-> None])
    /\ eDump.kind = "Ok"
    /\ eOut[0] = 1 /\ eOut[1] = 0 /\ eOut[4] = 32 /\ eOut[27] = 32
    /\ eOut[30] = 85 /\ eOut[31] = 170

(***************************************************************************)
(* Boot record: a BootRecord is dumped into a 2048-byte sector with a      *)
(* catalog address and the sector is read back; raw boot-record sectors    *)
(* are read as well.                                                       *)
(***************************************************************************)
BootIdents == {None} \cup {Some(v) : v \in {u \in StrAValues(32) : u.len = 1}}
BootRecords == [boot_sys_ident : BootIdents, boot_ident : BootIdents]
CatalogAddrs == {U32(0, 0), U32(0, 19), U32(4660, 22136), U32(65535, 65535)}
FreshSectors == {[i \in 0..(SECTOR_SIZE - 1) |-> 0], [i \in 0..(SECTOR_SIZE - 1) |-> 255]}

\* a boot-record sector of an image: header, system id, boot id, catalog
\* address, zeros
BootSector(sys, boot, addr) ==
    SeqToBuf(<<0>> \o VD_IDENT \o <<1>> \o sys \o boot \o u32_to_le_bytes(addr)
             \o Repeat(0, SECTOR_SIZE - 75))
RawBootSectors ==
    {BootSector(sys, boot, addr) :
        sys \in {EL_TORITO_SPECIFICATION_STR \o Repeat(0, 9), Repeat(32, 32), <<35>> \o Repeat(32, 31)},
        boot \in {Repeat(0, 32), <<65>> \o Repeat(32, 31), <<128>> \o Repeat(0, 31)},
        addr \in CatalogAddrs}

BootInit ==
    /\ \/ bX \in {Some(x) : x \in BootRecords} /\ bAddr \in CatalogAddrs /\ bOut \in FreshSectors
       \/ bX = None /\ bAddr = U32(0, 0) /\ bOut \in RawBootSectors
    /\ bDump = NotRun
    /\ bParsed = NotRun
    /\ bOff = NotRun
    /\ StrIdle /\ DateIdle /\ EntIdle /\ WalkIdle /\ CodecIdle

\* self.dump(boot_record_addr, &mut out)
DumpBootRecord ==
    /\ bX.some
    /\ bDump = NotRun
    /\ LET w == BootRecord_dump(bX.val, bAddr, bOut)
       IN  bDump' = [kind |-> w.kind] /\ bOut' = w.buf
    /\ UNCHANGED <<bX, bAddr, bParsed, bOff, strVars, dateVars, entVars, walkVars, codecVars>>

\* BootRecord::try_parse(&out) of a raw sector or of a dumped one
ParseBootRecord ==
    /\ bParsed = NotRun
    /\ bX.some => bDump.kind = "Ok"
    /\ bParsed' = BootRecord_try_parse(bOut)
    /\ UNCHANGED <<bX, bAddr, bOut, bDump, bOff, strVars, dateVars, entVars, walkVars, codecVars>>

\* BootRecord::read_el_torino_boot_catalog_off(&out)
ReadBootCatalogOff ==
    /\ bOff = NotRun
    /\ bX.some => bDump.kind = "Ok"
    /\ bOff' = [kind |-> "Ok", val |-> read_el_torino_boot_catalog_off(bOut)]
    /\ UNCHANGED <<bX, bAddr, bOut, bDump, bParsed, strVars, dateVars, entVars, walkVars, codecVars>>

BootNext == DumpBootRecord \/ ParseBootRecord \/ ReadBootCatalogOff

SpecBoot == BootInit /\ [][BootNext]_vars

\* C3: (BootRecord round-trip) the dump of a BootRecord x with catalog address
\* a into a 2048-byte sector completes normally and leaves out[0] = 0,
\* out[1..6] = "CD001", out[71..75] = a in little-endian and out[75..2048]
\* zero; then read_el_torino_boot_catalog_off returns a and try_parse
\* returns a value equal to x.
C3_BootRecordRoundTrip ==
    (bX.some /\ bDump # NotRun) =>
        /\ bDump.kind = "Ok"
        /\ bOut[0] = 0
        /\ Slice(bOut, 1, 6) = VD_IDENT
        /\ Slice(bOut, 71, 75) = u32_to_le_bytes(bAddr)
        /\ \A i \in 75..(SECTOR_SIZE - 1) : bOut[i] = 0
        /\ bOff # NotRun => bOff = [kind |-> "Ok", val |-> bAddr]
        /\ bParsed # NotRun => bParsed = [kind |-> "Ok", val |-> bX.val]

(***************************************************************************)
(* The descriptor walk: main of cdrr on an opened file.  The file is its   *)
(* 32768-byte system area, then the sectors of stream, then tail bytes     *)
(* that do not fill a sector.  A sector is held by its name in Image.      *)
(***************************************************************************)
Reverse(s) == [i \in 1..Len(s) |-> s[Len(s) + 1 - i]]
PadTo(s, n) == s \o Repeat(32, n - Len(s))
BothEndian(le) == le \o Reverse(le)

\* "00000000000000000" with a zero zone: the unset date
UnsetDate == Repeat(48, 16) \o <<0>>
\* 2024-01-01 12:00:00.00, zone 0
SomeDate == Dec(2024, 4) \o Dec(1, 2) \o Dec(1, 2) \o Dec(12, 2) \o Dec(0, 2) \o Dec(0, 2) \o Dec(0, 2) \o <<0>>

\* a primary volume descriptor with the given publisher, data-preparer and
\* application fields (128 bytes each) and the given descriptor version byte
PVDSector(publisher, preparer, application, version) ==
    SeqToBuf(<<1>> \o VD_IDENT \o <<1, 0>>
             \o PadTo(<<76, 73, 78, 85, 88>>, 32)                 \* 8..40    "LINUX"
             \o PadTo(<<67, 68, 82, 79, 77>>, 32)                 \* 40..72   "CDROM"
             \o Repeat(0, 8)
             \o BothEndian(<<200, 0, 0, 0>>)                      \* 80..88   volume space size
             \o Repeat(0, 32)
             \o BothEndian(<<1, 0>>) \o BothEndian(<<1, 0>>)      \* 120..128 set size, sequence number
             \o BothEndian(<<0, 8>>)                              \* 128..132 logical block size 2048
             \o BothEndian(<<10, 0, 0, 0>>)                       \* 132..140 path table size
             \o <<19, 0, 0, 0>> \o <<0, 0, 0, 0>>                 \* 140..148 L path table, optional
             \o <<0, 0, 0, 21>> \o <<0, 0, 0, 0>>                 \* 148..156 M path table, optional
             \o Repeat(0, 34)                                     \* 156..190 root directory record
             \o Repeat(32, 128)                                   \* 190..318 volume set
             \o publisher \o preparer \o application              \* 318..702
             \o Repeat(32, 37) \o Repeat(32, 37) \o Repeat(32, 37)
             \o SomeDate \o SomeDate \o UnsetDate \o UnsetDate    \* 813..881
             \o <<version, 0>>
             \o Repeat(0, 512) \o Repeat(0, 653))

\* a sector that is only a descriptor header
HeaderSector(ty, ident, version) ==
    SeqToBuf(<<ty>> \o ident \o <<version>> \o Repeat(0, SECTOR_SIZE - 7))

\* "_PREP.TXT" and then spaces: the file form of a long identifier
FileIdent == PadTo(<<95, 80, 82, 69, 80, 46, 84, 88, 84>>, 128)

Image ==
    [pvd       |-> PVDSector(Repeat(32, 128), Repeat(32, 128), Repeat(32, 128), 1),
     pvd_prep  |-> PVDSector(Repeat(32, 128), FileIdent, Repeat(32, 128), 1),
     pvd_ver   |-> PVDSector(Repeat(32, 128), Repeat(32, 128), Repeat(32, 128), 2),
     boot      |-> BootSector(EL_TORITO_SPECIFICATION_STR \o Repeat(0, 9), Repeat(0, 32), U32(0, 19)),
     evd       |-> HeaderSector(2, VD_IDENT, 1),
     part      |-> HeaderSector(3, VD_IDENT, 1),
     term      |-> HeaderSector(255, VD_IDENT, 1),
     bad_type  |-> HeaderSector(7, VD_IDENT, 1),
     bad_ident |-> HeaderSector(1, <<67, 68, 48, 48, 50>>, 1),
     bad_ver   |-> HeaderSector(1, VD_IDENT, 2)]

SectorNames == DOMAIN Image

\* the results of the three parses main applies to a sector
HeaderOf == [n \in SectorNames |-> VD_read_header(Image[n])]
PVDOf == [n \in SectorNames |-> [t \in TargetEndians |-> PVD_try_parse(Image[n], t)]]
BootOf == [n \in SectorNames |-> BootRecord_try_parse(Image[n])]

FileSize(sectors, rest) == DATA_START + SECTOR_SIZE * Len(sectors) + rest

\* read_sector(&mut file) with the file position at p: read_exact fills the
\* 2048 bytes or fails
read_sector(sectors, rest, p) ==
    IF p + SECTOR_SIZE <= FileSize(sectors, rest)
    THEN [kind |-> "Ok", val |-> sectors[(p - DATA_START) \div SECTOR_SIZE + 1]]
    ELSE [kind |-> "Err", err |-> "Io"]

Streams == UNION {[1..n -> SectorNames] : n \in 0..MaxSectors}
Tails == {0, 1000}

WalkInit ==
    /\ stream \in Streams
    /\ tail \in Tails
    /\ target \in TargetEndians
    /\ wPc = "seek"
    /\ pos = 0
    /\ off = 0
    /\ sector = None
    /\ header = NotRun
    /\ reads = <<>>
    /\ nPVD = 0
    /\ nBoot = 0
    /\ trace = <<>>
    /\ StrIdle /\ DateIdle /\ EntIdle /\ BootIdle /\ CodecIdle

\* file.seek(SeekFrom::Start(DATA_START)).unwrap(); let mut off = 0x8000;
Seek ==
    /\ wPc = "seek"
    /\ pos' = DATA_START
    /\ off' = 32768
    /\ wPc' = "read"
    /\ UNCHANGED <<stream, tail, target, sector, header, reads, nPVD, nBoot, trace>>
    /\ UNCHANGED <<strVars, dateVars, entVars, bootVars, codecVars>>

\* a variant of ReadSector whose read waits for the missing bytes at the end
\* of the file instead of failing
ReadSector_blocking ==
    /\ wPc = "read"
    /\ LET r == read_sector(stream, tail, pos)
       IN  IF r.kind = "Ok"
           THEN /\ reads' = Append(reads, pos)
                /\ sector' = Some(r.val) /\ pos' = pos + SECTOR_SIZE /\ wPc' = "header"
           ELSE UNCHANGED <<reads, sector, pos, wPc>>
    /\ UNCHANGED <<stream, tail, target, off, header, nPVD, nBoot, trace>>
    /\ UNCHANGED <<strVars, dateVars, entVars, bootVars, codecVars>>

\* let sector = read_sector(&mut file).unwrap();
ReadSector ==
    /\ wPc = "read"
    /\ LET r == read_sector(stream, tail, pos)
       IN  /\ reads' = Append(reads, pos)
           /\ IF r.kind = "Ok"
              THEN sector' = Some(r.val) /\ pos' = pos + SECTOR_SIZE /\ wPc' = "header"
              ELSE wPc' = "panic" /\ UNCHANGED <<sector, pos>>
    /\ UNCHANGED <<stream, tail, target, off, header, nPVD, nBoot, trace>>
    /\ UNCHANGED <<strVars, dateVars, entVars, bootVars, codecVars>>

\* a variant of ReadHeader that skips a sector whose header fails and goes on
\* with the next one
ReadHeader_resync ==
    /\ wPc = "header"
    /\ header' = HeaderOf[sector.val]
    /\ IF header'.kind = "Ok"
       THEN /\ trace' = Append(trace, [line |-> "header", off |-> off, ty |-> header'.val.ty])
            /\ wPc' = "dispatch"
            /\ UNCHANGED off
       ELSE wPc' = "read" /\ off' = off + 2048 /\ UNCHANGED trace
    /\ UNCHANGED <<stream, tail, target, pos, sector, reads, nPVD, nBoot>>
    /\ UNCHANGED <<strVars, dateVars, entVars, bootVars, codecVars>>

\* let header = VD::read_header(&sector).unwrap(); println!("header: ...", off, header);
ReadHeader ==
    /\ wPc = "header"
    /\ header' = HeaderOf[sector.val]
    /\ IF header'.kind = "Ok"
       THEN /\ trace' = Append(trace, [line |-> "header", off |-> off, ty |-> header'.val.ty])
            /\ wPc' = "dispatch"
       ELSE wPc' = "panic" /\ UNCHANGED trace
    /\ UNCHANGED <<stream, tail, target, pos, off, sector, reads, nPVD, nBoot>>
    /\ UNCHANGED <<strVars, dateVars, entVars, bootVars, codecVars>>

Dispatching(ty) == wPc = "dispatch" /\ header.val.ty = ty

\* a variant of NextIteration that leaves the reported offset where it is
NextIteration_same_off ==
    /\ off' = off
    /\ wPc' = "read"

\* the end of the loop body: println!(); off += 2048;
NextIteration ==
    /\ off' = off + 2048
    /\ wPc' = "read"

\* VDType::BootRecord => BootRecord::try_parse(&sector).unwrap(), two printed lines
MatchBootRecord ==
    /\ Dispatching("BootRecord")
    /\ IF BootOf[sector.val].kind = "Ok"
       THEN /\ nBoot' = nBoot + 1
            /\ trace' = Append(trace, [line |-> "boot catalog off",
                                       offset |-> read_el_torino_boot_catalog_off(Image[sector.val])])
            /\ NextIteration
       ELSE wPc' = "panic" /\ UNCHANGED <<nBoot, trace, off>>
    /\ UNCHANGED <<stream, tail, target, pos, sector, header, reads, nPVD>>
    /\ UNCHANGED <<strVars, dateVars, entVars, bootVars, codecVars>>

\* VDType::PrimaryVD => PVD::try_parse(&sector).unwrap(), printed
MatchPrimaryVD ==
    /\ Dispatching("PrimaryVD")
    /\ IF PVDOf[sector.val][target].kind = "Ok"
       THEN /\ nPVD' = nPVD + 1
            /\ trace' = Append(trace, [line |-> "pvd"])
            /\ NextIteration
       ELSE wPc' = "panic" /\ UNCHANGED <<nPVD, trace, off>>
    /\ UNCHANGED <<stream, tail, target, pos, sector, header, reads, nBoot>>
    /\ UNCHANGED <<strVars, dateVars, entVars, bootVars, codecVars>>

\* VDType::EVD => ()
MatchEVD ==
    /\ Dispatching("EVD")
    /\ NextIteration
    /\ UNCHANGED <<stream, tail, target, pos, sector, header, reads, nPVD, nBoot, trace>>
    /\ UNCHANGED <<strVars, dateVars, entVars, bootVars, codecVars>>

\* VDType::PartDes => todo!()
MatchPartDes ==
    /\ Dispatching("PartDes")
    /\ wPc' = "panic"
    /\ UNCHANGED <<stream, tail, target, pos, off, sector, header, reads, nPVD, nBoot, trace>>
    /\ UNCHANGED <<strVars, dateVars, entVars, bootVars, codecVars>>

\* VDType::VDEnd => break; then ExitCode::SUCCESS
MatchVDEnd ==
    /\ Dispatching("VDEnd")
    /\ wPc' = "done"
    /\ UNCHANGED <<stream, tail, target, pos, off, sector, header, reads, nPVD, nBoot, trace>>
    /\ UNCHANGED <<strVars, dateVars, entVars, bootVars, codecVars>>

WalkNext ==
    \/ Seek
    \/ ReadSector
    \/ ReadHeader
    \/ MatchBootRecord
    \/ MatchPrimaryVD
    \/ MatchEVD
    \/ MatchPartDes
    \/ MatchVDEnd

SpecWalk == WalkInit /\ [][WalkNext]_vars

\* the walk has ended: main returned or panicked
WalkEnded == wPc \in {"done", "panic"}

\* a primary volume descriptor whose fields are all well formed
WellFormedPVDs == {"pvd", "pvd_prep"}

\* the file holds one primary volume descriptor and then a terminator
PVDThenTerminator ==
    /\ Len(stream) = 2
    /\ stream[1] \in WellFormedPVDs
    /\ stream[2] = "term"
    /\ tail = 0

\* the sector read by the k-th read_sector call
SectorRead(k) == stream[(reads[k] - DATA_START) \div SECTOR_SIZE + 1]

\* no read_sector call follows the read of a terminator
NoReadAfterTerminator ==
    \A k \in 1..Len(reads) :
        (reads[k] + SECTOR_SIZE <= FileSize(stream, tail) /\ SectorRead(k) = "term")
            => k = Len(reads)

\* C10: (descriptor termination) once a sector whose header has type VDEnd
\* (255) is read the walk stops and no sector is read after it; and on a file
\* of one primary volume descriptor followed by one terminator the walk ends
\* by returning, with exactly one PVD parsed and exactly two sectors read.
C10_DescriptorTermination ==
    /\ NoReadAfterTerminator
    /\ (PVDThenTerminator /\ WalkEnded) =>
           (wPc = "done" /\ nPVD = 1 /\ Len(reads) = 2)

\* C10, first half alone: a terminator is the last sector read, and the walk
\* that dispatches on it returns
C10_StopsAtTerminator ==
    /\ NoReadAfterTerminator
    /\ (wPc = "done") => (header.val.ty = "VDEnd" /\ SectorRead(Len(reads)) = "term")

\* the k-th read_sector call returned a sector
ReadOk(k) == reads[k] + SECTOR_SIZE <= FileSize(stream, tail)

\* the header of the sector returned by the k-th read has been parsed
HeaderParsed(k) == ReadOk(k) /\ (k < Len(reads) \/ wPc # "header")

\* the lines printed for the sector at file offset o
LinesAt(o) == {i \in 1..Len(trace) : trace[i].line = "header" /\ trace[i].off = o}

\* the descriptor bodies parsed so far
BodiesParsed == nPVD + nBoot

\* C11: (header failure is fatal) if the header of the k-th sector read fails
\* to parse (unknown type byte, identifier other than "CD001", version other
\* than 1), the walk aborts at that sector: it is the last sector read, nothing
\* is printed or parsed for it, and main has panicked.
C11_HeaderFailureFatal ==
    \A k \in 1..Len(reads) :
        (HeaderParsed(k) /\ VD_read_header(Image[SectorRead(k)]).kind # "Ok") =>
            /\ k = Len(reads)
            /\ wPc = "panic"
            /\ header.kind = "Err"
            /\ LinesAt(reads[k]) = {}
            /\ BodiesParsed <= k - 1
            /\ Len(trace) <= 2 * (k - 1)

\* a header failure on the second sector of a longer file
C11_Witness ==
    /\ Len(stream) = 3
    /\ Len(reads) = 2
    /\ header.kind = "Err"
    /\ wPc = "panic"
    /\ BodiesParsed = 1

\* the header lines printed so far, in order
HeaderLines == SelectSeq(trace, LAMBDA t : t.line = "header")

\* the file offset of the k-th sector of the descriptor area, k = 0, 1, 2, ...
SectorOffset(k) == 32768 + 2048 * k

ShortFileSizes == {0, DATA_START - 1}

\* main on any finite file: the files of WalkInit, and the short files, which
\* hold no sector (tail is then the negative distance from DATA_START to the
\* end of the file)
WalkInitFinite ==
    /\ \/ stream \in Streams /\ tail \in Tails
       \/ stream = <<>> /\ tail \in {size - DATA_START : size \in ShortFileSizes}
    /\ target \in TargetEndians
    /\ wPc = "seek"
    /\ pos = 0
    /\ off = 0
    /\ sector = None
    /\ header = NotRun
    /\ reads = <<>>
    /\ nPVD = 0
    /\ nBoot = 0
    /\ trace = <<>>
    /\ StrIdle /\ DateIdle /\ EntIdle /\ BootIdle /\ CodecIdle

\* main is one sequential thread: a statement that can run does run
SpecWalkFair == WalkInitFinite /\ [][WalkNext]_vars /\ WF_vars(WalkNext)

\* the bytes of the file from position p on
Remaining(p) == FileSize(stream, tail) - p

\* the last read_sector call failed: fewer than 2048 bytes were left
IoFailure ==
    /\ reads # <<>>
    /\ Remaining(reads[Len(reads)]) < SECTOR_SIZE

\* the header of the last sector read did not parse
HeaderFailure == ~IoFailure /\ header.kind = "Err"

\* the header of the last sector read parsed, with this type
LastHeaderIs(ty) == ~IoFailure /\ header.kind = "Ok" /\ header.val.ty = ty

\* the body of the last sector read did not parse
DescriptorFailure ==
    \/ LastHeaderIs("PrimaryVD") /\ PVDOf[sector.val][target].kind # "Ok"
    \/ LastHeaderIs("BootRecord") /\ BootOf[sector.val].kind # "Ok"

\* why the walk stopped
StopsForAGivenReason ==
    /\ wPc = "done" => LastHeaderIs("VDEnd")
    /\ wPc = "panic" =>
          \/ IoFailure
          \/ HeaderFailure
          \/ DescriptorFailure
          \/ LastHeaderIs("PartDes")

\* every sector handed to the walk lies within the file, and a read that
\* finds fewer than 2048 bytes is the last one
ReadsWithinStream ==
    /\ \A k \in 1..Len(reads) :
          \/ Remaining(reads[k]) >= SECTOR_SIZE
          \/ k = Len(reads) /\ wPc = "panic" /\ Remaining(reads[k]) < SECTOR_SIZE
    /\ Len(reads) <= Len(stream) + 1
    /\ sector # None =>
          /\ Len(reads) <= Len(stream) \/ wPc = "panic"
          /\ \E k \in 1..Len(stream) : sector = Some(stream[k])

Patterns16 == {0, 1, 2048, 4660, 32767, 32768, 65535}
\* 32-bit patterns: 0, 1, 0x12345678, 0x7fffffff, 0x80000000, 0xffffffff
Patterns32 == {U32(0, 0), U32(0, 1), U32(4660, 22136), U32(32767, 65535),
               U32(32768, 0), U32(65535, 65535)}

\* the window whose little-endian half encodes a and whose big-endian half encodes b
Window16(a, b) == to_le_bytes(a, 2) \o Reverse(to_le_bytes(b, 2))
Window32(a, b) == u32_to_le_bytes(a) \o Reverse(u32_to_le_bytes(b))

EndianInit ==
    /\ deSlice \in {Window16(a, b) : a, b \in Patterns16} \cup {Window32(a, b) : a, b \in Patterns32}
    /\ deTarget \in TargetEndians
    /\ deRes = NotRun
    /\ HdrIdle /\ PVDIdle
    /\ StrIdle /\ DateIdle /\ EntIdle /\ BootIdle /\ WalkIdle

\* one call of a decoder on the window
Decode(fn, size, val) ==
    /\ deRes = NotRun
    /\ Len(deSlice) = 2 * size
    /\ deRes' = [fn |-> fn, val |-> val]
    /\ UNCHANGED <<deSlice, deTarget, hdrVars, pvdVars, strVars, dateVars, entVars, bootVars, walkVars>>

DecodeU16 == Decode("u16", 2, double_endian_u16(deSlice, deTarget))
DecodeI16 == Decode("i16", 2, double_endian_i16(deSlice, deTarget))
DecodeU32 == Decode("u32", 4, double_endian_u32(deSlice, deTarget))
DecodeI32 == Decode("i32", 4, double_endian_i32(deSlice, deTarget))

EndianNext == DecodeU16 \/ DecodeI16 \/ DecodeU32 \/ DecodeI32

SpecEndian == EndianInit /\ [][EndianNext]_vars

\* the integer of type fn that the pattern p encodes
AsType(fn, p) ==
    CASE fn = "u16" -> p [] fn = "i16" -> AsI16(p) [] fn = "u32" -> p [] fn = "i32" -> AsI32(p)

\* the result is the integer of the half chosen by Pick, for every pair of
\* patterns a (little-endian half) and b (big-endian half) making the window
DecodesHalf(Pick(_, _)) ==
    deRes # NotRun =>
        /\ \A a, b \in Patterns16 :
              (deRes.fn \in {"u16", "i16"} /\ deSlice = Window16(a, b))
                  => deRes.val = AsType(deRes.fn, Pick(a, b))
        /\ \A a, b \in Patterns32 :
              (deRes.fn \in {"u32", "i32"} /\ deSlice = Window32(a, b))
                  => deRes.val = AsType(deRes.fn, Pick(a, b))

LittleHalf(a, b) == a
NativeHalf(a, b) == IF deTarget = "little" THEN a ELSE b

\* C16 as stated: (dual-endian decode) for every window of a little-endian
\* half followed by a big-endian half, the decoder returns the integer encoded
\* by the little-endian half whatever the big-endian half contains; when both
\* halves encode the same integer the result is that integer.
C16_LittleHalfAlways == DecodesHalf(LittleHalf)

\* C16: (dual-endian decode, amended) the decoder returns the integer encoded
\* by the half in the byte order of the build's target: the little-endian half
\* on a little-endian target, whatever the big-endian half contains, and the
\* big-endian half on a big-endian target, whatever the little-endian half
\* contains; when both halves encode the same integer the result is that
\* integer on every target.
C16_DualEndianDecode == DecodesHalf(NativeHalf)

\* a big-endian build decoding a window whose halves disagree: 1 and -1
C16_Witness ==
    /\ deTarget = "big"
    /\ deSlice = Window32(U32(0, 1), U32(65535, 65535))
    /\ deRes # NotRun
    /\ deRes.fn = "i32"
    /\ deRes.val = -1

(***************************************************************************)
(* Descriptor headers: VD::read_header applied to 7 header bytes.          *)
(***************************************************************************)
HdrTypeBytes == {0, 1, 2, 3, 4, 7, 254, 255}
\* "CD001", "CD002", "cd001", "XXXXX", "BEA01"
HdrIdents == {VD_IDENT, <<67, 68, 48, 48, 50>>, <<99, 100, 48, 48, 49>>,
              <<88, 88, 88, 88, 88>>, <<66, 69, 65, 48, 49>>}
HdrVersions == {0, 1, 2, 255}
HdrInputs == {<<t>> \o id \o <<v>> : t \in HdrTypeBytes, id \in HdrIdents, v \in HdrVersions}

HdrInit ==
    /\ hBuf \in HdrInputs
    /\ hRes = NotRun
    /\ EndianIdle /\ PVDIdle
    /\ StrIdle /\ DateIdle /\ EntIdle /\ BootIdle /\ WalkIdle

\* VD::read_header(&hBuf)
ReadHeaderBytes ==
    /\ hRes = NotRun
    /\ hRes' = VD_read_header(SeqToBuf(hBuf))
    /\ UNCHANGED <<hBuf, endVars, pvdVars, strVars, dateVars, entVars, bootVars, walkVars>>

HdrNext == ReadHeaderBytes

SpecHdr == HdrInit /\ [][HdrNext]_vars

\* the descriptor types of the format, by type byte
TypeOfByte(b) ==
    CASE b = 0 -> "BootRecord" [] b = 1 -> "PrimaryVD" [] b = 2 -> "EVD"
      [] b = 3 -> "PartDes" [] b = 255 -> "VDEnd" [] OTHER -> "none"

\* C12: (header parse) VD::read_header succeeds exactly when byte 0 is one of
\* 0, 1, 2, 3, 255, bytes 1..5 are "CD001" and byte 6 is 1, and then returns
\* the matching type with version 1; otherwise it fails with UnknownType for
\* an unrecognised type byte, UnknownIdent carrying the 5 bytes for another
\* identifier, and UnknownVersion carrying the byte for another version.
C12_HeaderParse ==
    hRes # NotRun =>
        LET ty == hBuf[1]
            ident == SubSeq(hBuf, 2, 6)
            version == hBuf[7]
        IN  IF TypeOfByte(ty) = "none"
            THEN hRes = [kind |-> "Err", err |-> "UnknownType", value |-> ty]
            ELSE IF ident # <<67, 68, 48, 48, 49>>
            THEN hRes = [kind |-> "Err", err |-> "UnknownIdent", value |-> ident]
            ELSE IF version # 1
            THEN hRes = [kind |-> "Err", err |-> "UnknownVersion", value |-> version]
            ELSE hRes = [kind |-> "Ok", val |-> [ty |-> TypeOfByte(ty), version |-> 1]]

\* C12 apart from the name of the type error: the success condition, the value
\* returned, UnknownIdent and UnknownVersion are as stated
C12_ApartFromTypeError ==
    (hRes # NotRun /\ TypeOfByte(hBuf[1]) # "none") => C12_HeaderParse

(***************************************************************************)
(* Primary volume descriptors: PVD::try_parse applied to sectors whose     *)
(* three long identifiers are each blank, a text, a file name behind the   *)
(* marker byte 0x5f, or the marker alone.                                   *)
(***************************************************************************)
\* blank, "ACME", "_PREP.TXT", "_"
LongIdents == {Repeat(32, 128), PadTo(<<65, 67, 77, 69>>, 128), FileIdent, PadTo(<<95>>, 128)}

PVDSectors ==
    {PVDSector(publisher, preparer, application, version) :
        publisher \in LongIdents, preparer \in LongIdents, application \in LongIdents,
        version \in {1, 2}}

PVDInit ==
    /\ pSector \in PVDSectors
    /\ pTarget \in TargetEndians
    /\ pRes = NotRun
    /\ HdrIdle /\ EndianIdle
    /\ StrIdle /\ DateIdle /\ EntIdle /\ BootIdle /\ WalkIdle

\* PVD::try_parse(&pSector)
ParsePVD ==
    /\ pRes = NotRun
    /\ pRes' = PVD_try_parse(pSector, pTarget)
    /\ UNCHANGED <<pSector, pTarget, hdrVars, endVars, strVars, dateVars, entVars, bootVars, walkVars>>

PVDNext == ParsePVD

SpecPVD == PVDInit /\ [][PVDNext]_vars

\* the string held by the 127 bytes that follow the marker at offset m
AfterMarker(buffer, m) ==
    LET bytes == Slice(buffer, m + 1, m + 128)
    IN  [bytes |-> bytes, len |-> ContentLen(bytes)]

\* the long identifier expected for the field whose marker is at offset m
Gated(buffer, m) == IF buffer[m] = 95 THEN Some(AfterMarker(buffer, m)) ELSE None

\* the parse of a sector whose fields are valid and whose version is 1 returns
\* a PVD whose three long identifiers are gated by their marker bytes
LongIdentsGated ==
    /\ pRes.kind = "Ok"
    /\ pRes.val.publisher_ident = Gated(pSector, 318)
    /\ pRes.val.data_prep_ident = Gated(pSector, 446)
    /\ pRes.val.app_ident = Gated(pSector, 574)

\* C19: (PVD long-identifier gating) for every sector whose other fields are
\* valid and whose version byte at 881 is 1, PVD::try_parse returns a PVD, never
\* aborts, and each of the publisher, data-preparer and application
\* identifiers is Some(string of the 127 bytes following the marker) exactly
\* when the marker byte 0x5f is at offset 318, 446 and 574 respectively, and
\* None otherwise.
C19_LongIdentifierGating ==
    (pRes # NotRun /\ pSector[881] = 1) => LongIdentsGated

\* C19 for the sectors without a data-preparer marker: the publisher and the
\* application identifiers are gated as stated
C19_WithoutPreparerMarker ==
    (pRes # NotRun /\ pSector[881] = 1 /\ pSector[446] # 95) => LongIdentsGated

====
